---- MODULE Spec2Model ----
(***************************************************************************)
(* Model of the SecureEVoting protocol: two collectors (collector.py), the *)
(* voter client (voter.py) and the shared assigned_shares.json registry.   *)
(***************************************************************************)
EXTENDS Integers, Sequences, FiniteSets, TLC

(***************************************************************************)
(* Bounds of the model.                                                    *)
(***************************************************************************)
\* total_voters of the election configuration used by the protocol model.
total_voters == 2
\* len(candidates) of the election configuration.
total_candidates == 2
\* generate_random_shares draws from RandLo..RandHi; the protocol model draws
\* from RandLo..(RandLo + ShareSpan).
ShareSpan == 0
\* generate_unique_location_shares draws from -10*n..10*n; the protocol model
\* draws from 0..LocSpan.
LocSpan == 1
\* Number of ballots the decode harness sums.
CodecVoters == 3
\* Stray connections the environment opens to a collector's voter endpoint.
MaxStray == 1

(***************************************************************************)
(* Program constants.                                                      *)
(***************************************************************************)
RandLo == 1
RandHi == 10

Collectors == {1, 2}
Voters == 1..total_voters
Peer(c) == 3 - c

(***************************************************************************)
(* Pure helpers.                                                           *)
(***************************************************************************)
RECURSIVE Pow2(_)
\* 2 ** n for n >= 0.
Pow2(n) == IF n = 0 THEN 1 ELSE 2 * Pow2(n - 1)

RECURSIVE SumPairs(_)
\* [sum(x) for x in zip(*pairs)] for a non-empty list of pairs.
SumPairs(s) ==
  IF s = <<>> THEN <<0, 0>>
  ELSE LET r == SumPairs(Tail(s))
       IN <<Head(s)[1] + r[1], Head(s)[2] + r[2]>>

Reverse(s) == [i \in 1..Len(s) |-> s[Len(s) + 1 - i]]

\* voter.py compute_voting_vector: a 0/1 list of length tv * tc with a single
\* 1 at 0-based index (location_share - 1) * tc + vote.
compute_voting_vector(loc, choice, tv, tc) ==
  [i \in 1..(tv * tc) |-> IF i - 1 = (loc - 1) * tc + choice THEN 1 ELSE 0]

FirstSet(vv) ==
  IF \E i \in 1..Len(vv) : vv[i] = 1
  THEN CHOOSE i \in 1..Len(vv) : vv[i] = 1 /\ \A j \in 1..(i - 1) : vv[j] # 1
  ELSE 0

\* A compute_numbers whose first exponent is one too large.
compute_numbers_shifted(vv, size) ==
  LET k == FirstSet(vv)
  IN IF k = 0 THEN <<0, 0>>
     ELSE <<Pow2(k), Pow2(size - (k - 1) - 1)>>

\* voter.py compute_numbers: (2^i, 2^(size-i-1)) for the first set index i
\* (0-based), (0, 0) for an all-zero vector.
compute_numbers(vv, size) ==
  LET k == FirstSet(vv)
  IN IF k = 0 THEN <<0, 0>>
     ELSE <<Pow2(k - 1), Pow2(size - (k - 1) - 1)>>

RECURSIVE Digits(_)
\* The binary digits of n >= 0, most significant first, as characters.
Digits(n) ==
  IF n < 2 THEN <<IF n = 1 THEN "1" ELSE "0">>
  ELSE Append(Digits(n \div 2), IF n % 2 = 1 THEN "1" ELSE "0")

\* bin(number)[2:]: "0b101"[2:] = "101", and "-0b101"[2:] = "b101".
BinTail(number) ==
  IF number >= 0 THEN Digits(number) ELSE <<"b">> \o Digits(-number)

\* str.zfill(width) of a string with no sign prefix.
zfill(s, width) ==
  IF Len(s) >= width THEN s
  ELSE [i \in 1..(width - Len(s)) |-> "0"] \o s

\* s[j : j + n] with Python's clipping of slices (j is 0-based).
Slice(s, j, n) ==
  LET hi == IF j + n > Len(s) THEN Len(s) ELSE j + n
  IN IF j >= hi THEN <<>> ELSE SubSeq(s, j + 1, hi)

\* A binary_representation that never reverses its string.
binary_representation_unreversed(number, i, binary_length) ==
  zfill(BinTail(number), binary_length)

\* collector.py tally_votes, lines 101-105: the zero-padded binary string of one
\* number of the final result, reversed for the first number (i = 0).
binary_representation(number, i, binary_length) ==
  LET b == zfill(BinTail(number), binary_length)
  IN IF i = 0 THEN Reverse(b) ELSE b

\* collector.py tally_votes, line 108.
vote_splits(b, binary_length, cc) ==
  [k \in 1..((binary_length + cc - 1) \div cc) |-> Slice(b, (k - 1) * cc, cc)]

\* collector.py tally_votes, lines 111-115: per candidate (by list index) the
\* number of splits whose bit at that offset is "1".
vote_counts(splits, cc) ==
  [idx \in 1..cc |->
     Cardinality({k \in 1..Len(splits) :
                    idx <= Len(splits[k]) /\ splits[k][idx] = "1"})]

\* collector.py tally_votes: the two printed count vectors.
tally_votes(final_result, cc, tv) ==
  [i \in 1..2 |->
     vote_counts(vote_splits(binary_representation(final_result[i], i - 1, tv * cc),
                             tv * cc, cc), cc)]

(***************************************************************************)
(* Wire format.  A message is the list of its comma-separated fields; a    *)
(* field is a decimal integer or some other text.                          *)
(***************************************************************************)
Num(n) == [t |-> "num", v |-> n]
Word(w) == [t |-> w, v |-> 0]
IsInt(f) == f.t = "num"
\* What recv returns on a connection closed without data: the empty string.
EmptyData == <<Word("")>>

\* Python list indexing seq[i] (0-based, negative indices from the end).
InRange(seq, i) == -Len(seq) <= i /\ i < Len(seq)
PyIndex(seq, i) == IF i >= 0 THEN seq[i + 1] ELSE seq[Len(seq) + i + 1]

(***************************************************************************)
(* State.                                                                  *)
(***************************************************************************)
VARIABLES
  voter,          \* per voter process: the VoterClient fields and vote_process locals
  collector,      \* per collector: the CollectorServer fields and the main thread
  conn,           \* per client: its open connection to a voter endpoint and the worker on it
  peer_inbox,     \* per collector: connections queued on its peer endpoint
  file,           \* assigned_shares.json
  strays,         \* stray connections opened so far
  quiet_at_stop,  \* history: per collector, whether voting was complete at its stop signal
  h               \* the encode/decode harness

vars == <<voter, collector, conn, peer_inbox, file, strays, quiet_at_stop, h>>

\* The client slot of the stray connection, beside the voters.
Stray == total_voters + 1
Clients == Voters \cup {Stray}

NoFile == [exists |-> FALSE, content |-> <<>>]
NoConn == [to |-> 0, data |-> <<>>, st |-> "none", resp |-> <<>>]
FreeLock == [kind |-> "free", id |-> 0]
MainThread == [kind |-> "main", id |-> 0]
Worker(k) == [kind |-> "worker", id |-> k]

\* The voter identifier a voter process sends.
voter_id(v) == v

ShareDraws == RandLo..(RandLo + ShareSpan)
LocDraws == 0..LocSpan

\* generate_unique_location_shares: total_voters pairwise different values.
UniqueShareLists ==
  {s \in [1..total_voters -> LocDraws] : \A i, j \in 1..total_voters : i # j => s[i] # s[j]}

HarnessIdle == [casts |-> <<>>, vector |-> <<>>, numbers |-> <<0, 0>>,
                sum |-> <<0, 0>>, out |-> <<>>, runs |-> 0, view |-> <<>>]

\* A voter process before its prompts are answered (voter.py lines 173-196).
InitVoter ==
  [pc |-> "start", vote |-> 0, location_share1 |-> 0,
   random_shares_collector1 |-> <<>>, random_shares_collector2 |-> <<>>,
   computed_share |-> 0, assigned_shares |-> <<>>, location_share |-> 0,
   voting_vector |-> <<>>, numbers |-> <<0, 0>>, secret_ballot |-> <<>>,
   acks |-> {}]

InitCollector(shares) ==
  [pc |-> "accepting", received_ballots |-> <<>>, random_shares |-> <<>>,
   lock |-> FreeLock,
   secret_ballot_aggregate |-> <<0, 0>>, random_share_aggregate |-> <<0, 0>>,
   peer_random_share_aggregate |-> <<0, 0>>, stop_accepting |-> FALSE,
   location_shares |-> shares, result |-> <<>>, tally |-> <<>>]

Init ==
  /\ voter = [v \in Voters |-> InitVoter]
  /\ collector \in {[c \in Collectors |-> InitCollector(ls[c])] : ls \in [Collectors -> UniqueShareLists]}
  /\ conn = [k \in Clients |-> NoConn]
  /\ peer_inbox = [c \in Collectors |-> <<>>]
  /\ file = NoFile
  /\ strays = 0
  /\ quiet_at_stop = [c \in Collectors |-> FALSE]
  /\ h = HarnessIdle

(***************************************************************************)
(* Voter process: voter.py vote_process, cut at its blocking calls.        *)
(***************************************************************************)
\* The voter endpoint of collector c accepts connections: start_server between
\* server.listen (line 241) and server.close (line 251).
Accepting(c) == collector[c].pc = "accepting"

\* client.connect(collector); client.sendall(data) on an endpoint that accepts:
\* the accept loop (accept_voter_connections lines 216-219) takes the connection
\* and starts its worker thread, which has not run yet.
Connect(c, data) == [to |-> c, data |-> data, st |-> "accepted", resp |-> <<>>]

\* What client.recv returns once the worker replied or the connection was closed.
Received(k) == IF conn[k].st = "replied" THEN conn[k].resp ELSE EmptyData

\* receive_shares lines 94-100: the response has three integer fields.
SharesResponseOK(response) ==
  Len(response) = 3 /\ \A i \in 1..3 : IsInt(response[i])

\* vote_process lines 123-125 and 129-131: reduce modulo total_voters, 0 maps to
\* total_voters.
WrapShare(x, tv) == IF x % tv = 0 THEN tv ELSE x % tv

Range(s) == {s[i] : i \in 1..Len(s)}

RECURSIVE Probe(_, _, _, _)
\* vote_process lines 128-131: the while loop, followed for at most n more
\* iterations; 0 when it does not end (every value of 1..tv is assigned).
Probe(share, assigned, tv, n) ==
  IF share \notin Range(assigned) THEN share
  ELSE IF n = 0 THEN 0
  ELSE Probe(WrapShare(share + 1, tv), assigned, tv, n - 1)

\* read_assigned_shares: [] when the file does not exist.
read_assigned_shares == IF file.exists THEN file.content ELSE <<>>

\* A receive_shares that logs its failure and returns to vote_process.
on_receive_failure_ignored(vr) == [vr EXCEPT !.pc = "commit"]

\* receive_shares lines 110-112: any failure is logged and the process exits.
on_receive_failure(vr) == [vr EXCEPT !.pc = "exit"]

\* The vote prompt and the constructor (lines 183-195), then vote_process line 119
\* up to the recv of receive_shares (line 91).
RequestShares1(v) ==
  /\ voter[v].pc = "start"
  /\ \E vote_choice \in 0..(total_candidates - 1) :
       IF Accepting(1)
       THEN /\ conn' = [conn EXCEPT ![v] = Connect(1, <<Num(voter_id(v))>>)]
            /\ voter' = [voter EXCEPT ![v].pc = "shares1", ![v].vote = vote_choice]
       ELSE /\ voter' = [voter EXCEPT ![v] = on_receive_failure([@ EXCEPT !.vote = vote_choice])]
            /\ UNCHANGED conn
  /\ UNCHANGED <<collector, peer_inbox, file, strays, quiet_at_stop, h>>

\* receive_shares lines 91-112 for collector 1, then line 120 up to the recv.
ReceiveShares1(v) ==
  /\ voter[v].pc = "shares1"
  /\ conn[v].st \in {"replied", "closed"}
  /\ LET response == Received(v) IN
     IF SharesResponseOK(response) /\ Accepting(2)
     THEN /\ voter' = [voter EXCEPT ![v].pc = "shares2",
                                    ![v].location_share1 = response[1].v,
                                    ![v].random_shares_collector1 = <<response[2].v, response[3].v>>]
          /\ conn' = [conn EXCEPT ![v] = Connect(2, <<Num(voter_id(v))>>)]
     ELSE /\ voter' = [voter EXCEPT ![v] = on_receive_failure(
                          [@ EXCEPT !.location_share1 =
                                       IF SharesResponseOK(response) THEN response[1].v ELSE @,
                                    !.random_shares_collector1 =
                                       IF SharesResponseOK(response)
                                       THEN <<response[2].v, response[3].v>> ELSE @])]
          /\ conn' = [conn EXCEPT ![v] = NoConn]
  /\ UNCHANGED <<collector, peer_inbox, file, strays, quiet_at_stop, h>>

\* receive_shares lines 91-112 for collector 2, then vote_process lines 123-127.
ReceiveShares2(v) ==
  /\ voter[v].pc = "shares2"
  /\ conn[v].st \in {"replied", "closed"}
  /\ LET response == Received(v) IN
     IF SharesResponseOK(response)
     THEN voter' = [voter EXCEPT ![v].pc = "commit",
                                 ![v].random_shares_collector2 = <<response[2].v, response[3].v>>,
                                 ![v].computed_share =
                                    WrapShare(voter[v].location_share1 + response[1].v, total_voters),
                                 ![v].assigned_shares = read_assigned_shares]
     ELSE voter' = [voter EXCEPT ![v] = on_receive_failure(@)]
  /\ conn' = [conn EXCEPT ![v] = NoConn]
  /\ UNCHANGED <<collector, peer_inbox, file, strays, quiet_at_stop, h>>

\* vote_process lines 128-136: probe, append, write_assigned_shares.
CommitShare(v) ==
  /\ voter[v].pc = "commit"
  /\ LET share == Probe(voter[v].computed_share, voter[v].assigned_shares,
                        total_voters, total_voters)
         assigned == Append(voter[v].assigned_shares, share)
     IN IF share = 0
        THEN /\ voter' = [voter EXCEPT ![v].pc = "probing"]
             /\ UNCHANGED file
        ELSE /\ voter' = [voter EXCEPT ![v].pc = "encode",
                                       ![v].computed_share = share,
                                       ![v].location_share = share,
                                       ![v].assigned_shares = assigned]
             /\ file' = [exists |-> TRUE, content |-> assigned]
  /\ UNCHANGED <<collector, conn, peer_inbox, strays, quiet_at_stop, h>>

\* vote_process lines 148-150.
Blind(numbers, rs1, rs2) ==
  <<numbers[1] + rs1[1] + rs2[1], numbers[2] + rs1[2] + rs2[2]>>

\* send_secret_ballot: the first collector from index i on whose connect succeeds
\* (a refused connect is logged and the loop goes on), 0 when none is left.
FirstAccepting(i) ==
  IF i <= 1 /\ Accepting(1) THEN 1
  ELSE IF i <= 2 /\ Accepting(2) THEN 2
  ELSE 0

\* send_secret_ballot from collector index i on, up to its next recv; past the
\* last collector, cleanup_assigned_shares lines 64-65.
ContinueSend(v, i, vr) ==
  LET c == FirstAccepting(i) IN
  IF c # 0
  THEN /\ conn' = [conn EXCEPT ![v] =
                     Connect(c, <<Num(vr.secret_ballot[1]), Num(vr.secret_ballot[2])>>)]
       /\ voter' = [voter EXCEPT ![v] = [vr EXCEPT !.pc = IF c = 1 THEN "ballot1" ELSE "ballot2"]]
  ELSE /\ conn' = [conn EXCEPT ![v] = NoConn]
       /\ voter' = [voter EXCEPT ![v] =
                      [vr EXCEPT !.pc = IF Len(read_assigned_shares) = total_voters
                                        THEN "remove" ELSE "done"]]

\* vote_process lines 140-154 up to the first recv of send_secret_ballot.
SendBallot(v) ==
  /\ voter[v].pc = "encode"
  /\ LET vv == compute_voting_vector(voter[v].location_share, voter[v].vote,
                                     total_voters, total_candidates)
         nn == compute_numbers(vv, total_voters * total_candidates)
         sb == Blind(nn, voter[v].random_shares_collector1, voter[v].random_shares_collector2)
     IN ContinueSend(v, 1, [voter[v] EXCEPT !.voting_vector = vv, !.numbers = nn,
                                            !.secret_ballot = sb])
  /\ UNCHANGED <<collector, peer_inbox, file, strays, quiet_at_stop, h>>

\* send_secret_ballot line 167 for collector c, then the rest of the loop.
ReceiveAck(v, c) ==
  /\ voter[v].pc = (IF c = 1 THEN "ballot1" ELSE "ballot2")
  /\ conn[v].to = c
  /\ conn[v].st \in {"replied", "closed"}
  /\ ContinueSend(v, c + 1,
                  [voter[v] EXCEPT !.acks = IF conn[v].st = "replied" THEN @ \cup {c} ELSE @])
  /\ UNCHANGED <<collector, peer_inbox, file, strays, quiet_at_stop, h>>

\* cleanup_assigned_shares line 66: os.remove raises when the file is gone.
RemoveFile(v) ==
  /\ voter[v].pc = "remove"
  /\ IF file.exists
     THEN /\ file' = NoFile
          /\ voter' = [voter EXCEPT ![v].pc = "done"]
     ELSE /\ voter' = [voter EXCEPT ![v].pc = "crash"]
          /\ UNCHANGED file
  /\ UNCHANGED <<collector, conn, peer_inbox, strays, quiet_at_stop, h>>

(***************************************************************************)
(* Collector: collector.py.                                                *)
(***************************************************************************)
\* handle_voter line 81 and handle_peer_message line 155.
IsAggregate(data) == data[1].t = "AGGREGATE"
\* handle_voter_message line 125: "," in data.
HasComma(data) == Len(data) > 1
\* handle_voter_message line 126: n1, n2 = map(int, data.split(",")).
BallotOK(data) == Len(data) = 2 /\ IsInt(data[1]) /\ IsInt(data[2])
\* handle_peer_message lines 156-157: three fields, the last two integers.
PeerFrameOK(data) == Len(data) = 3 /\ IsInt(data[2]) /\ IsInt(data[3])
\* handle_voter_message lines 132-135: int(data) and the list index succeed.
RequestOK(c, data) ==
  IsInt(data[1]) /\ InRange(collector[c].location_shares, data[1].v - 1)

\* generate_random_shares line 50.
generate_random_shares(cr, r1, r2) ==
  [cr EXCEPT !.random_shares = Append(@, <<r1, r2>>)]

\* compute_aggregates lines 185-197: an aggregate of an empty list is left as it is.
compute_aggregates(cr) ==
  [cr EXCEPT !.secret_ballot_aggregate =
               IF cr.received_ballots # <<>> THEN SumPairs(cr.received_ballots) ELSE @,
             !.random_share_aggregate =
               IF cr.random_shares # <<>> THEN SumPairs(cr.random_shares) ELSE @]

\* A final result that forgets to subtract the peer's share aggregate.
final_result_no_peer(cr) ==
  <<cr.secret_ballot_aggregate[1] - cr.random_share_aggregate[1],
    cr.secret_ballot_aggregate[2] - cr.random_share_aggregate[2]>>

\* handle_peer_message lines 164-167.
final_result(cr) ==
  <<cr.secret_ballot_aggregate[1] - cr.random_share_aggregate[1]
      - cr.peer_random_share_aggregate[1],
    cr.secret_ballot_aggregate[2] - cr.random_share_aggregate[2]
      - cr.peer_random_share_aggregate[2]>>

\* handle_peer_message lines 161-176 once the lock of compute_aggregates is held.
finish_peer_message(cr) ==
  LET agg == compute_aggregates(cr)
      res == final_result(agg)
  IN [agg EXCEPT !.lock = FreeLock, !.result = res,
                 !.tally = tally_votes(res, total_candidates, total_voters)]

\* handle_voter_message lines 132-145: a share request.
HandleShareRequest(c, k) ==
  /\ conn[k].to = c
  /\ conn[k].st = "accepted"
  /\ ~IsAggregate(conn[k].data)
  /\ ~HasComma(conn[k].data)
  /\ RequestOK(c, conn[k].data)
  /\ collector[c].lock = FreeLock
  /\ \E r1, r2 \in ShareDraws :
       LET location_share == PyIndex(collector[c].location_shares, conn[k].data[1].v - 1)
       IN /\ collector' = [collector EXCEPT ![c] = generate_random_shares(@, r1, r2)]
          /\ conn' = [conn EXCEPT ![k].st = "replied",
                                  ![k].resp = <<Num(location_share), Num(r1), Num(r2)>>]
  /\ UNCHANGED <<voter, peer_inbox, file, strays, quiet_at_stop, h>>

\* handle_voter_message lines 126-127: a ballot is parsed and the lock taken.
HandleBallotLock(c, k) ==
  /\ conn[k].to = c
  /\ conn[k].st = "accepted"
  /\ ~IsAggregate(conn[k].data)
  /\ HasComma(conn[k].data)
  /\ BallotOK(conn[k].data)
  /\ collector[c].lock = FreeLock
  /\ collector' = [collector EXCEPT ![c].lock = Worker(k)]
  /\ conn' = [conn EXCEPT ![k].st = "locked"]
  /\ UNCHANGED <<voter, peer_inbox, file, strays, quiet_at_stop, h>>

\* handle_voter_message lines 128-130: append under the lock, release, acknowledge.
HandleBallotAppend(c, k) ==
  /\ conn[k].to = c
  /\ conn[k].st = "locked"
  /\ ~IsAggregate(conn[k].data)
  /\ collector' = [collector EXCEPT
                     ![c].received_ballots =
                        Append(@, <<conn[k].data[1].v, conn[k].data[2].v>>),
                     ![c].lock = FreeLock]
  /\ conn' = [conn EXCEPT ![k].st = "replied", ![k].resp = <<Word("ACK")>>]
  /\ UNCHANGED <<voter, peer_inbox, file, strays, quiet_at_stop, h>>

\* The message raises in handle_voter_message or handle_peer_message: it is
\* logged (lines 146-147, 179-180) and the connection closed without a reply.
Malformed(c, data) ==
  IF IsAggregate(data) THEN ~PeerFrameOK(data)
  ELSE IF HasComma(data) THEN ~BallotOK(data)
  ELSE ~RequestOK(c, data)

HandleMalformed(c, k) ==
  /\ conn[k].to = c
  /\ conn[k].st = "accepted"
  /\ Malformed(c, conn[k].data)
  /\ IsAggregate(conn[k].data) \/ HasComma(conn[k].data) \/ ~IsInt(conn[k].data[1])
       \/ collector[c].lock = FreeLock
  /\ conn' = [conn EXCEPT ![k].st = "closed"]
  /\ UNCHANGED <<voter, collector, peer_inbox, file, strays, quiet_at_stop, h>>

\* handle_voter lines 81-82 on the voter endpoint, handle_peer_message lines
\* 156-161: the peer aggregate is stored, then compute_aggregates takes the lock.
HandleAggregateLock(c, k) ==
  /\ conn[k].to = c
  /\ conn[k].st = "accepted"
  /\ IsAggregate(conn[k].data)
  /\ PeerFrameOK(conn[k].data)
  /\ collector[c].lock = FreeLock
  /\ collector' = [collector EXCEPT
                     ![c].peer_random_share_aggregate =
                        <<conn[k].data[2].v, conn[k].data[3].v>>,
                     ![c].lock = Worker(k)]
  /\ conn' = [conn EXCEPT ![k].st = "locked"]
  /\ UNCHANGED <<voter, peer_inbox, file, strays, quiet_at_stop, h>>

\* handle_peer_message lines 161-176 in a worker of the voter endpoint.
HandleAggregateFinish(c, k) ==
  /\ conn[k].to = c
  /\ conn[k].st = "locked"
  /\ IsAggregate(conn[k].data)
  /\ collector' = [collector EXCEPT ![c] = finish_peer_message(@)]
  /\ conn' = [conn EXCEPT ![k].st = "closed"]
  /\ UNCHANGED <<voter, peer_inbox, file, strays, quiet_at_stop, h>>

\* A voter has both acknowledgments / has not been issued any share pair.
Completed(v) == voter[v].acks = Collectors
Untouched(v) ==
  voter[v].pc \in {"start", "exit"} /\ voter[v].random_shares_collector1 = <<>>
VotingComplete == \A v \in Voters : Completed(v) \/ Untouched(v)

\* start_server lines 249-255: the operator's stop signal; the endpoint is closed,
\* the accept thread joined (the workers it started are not), and
\* compute_aggregates takes the lock (line 183).
Stop(c) ==
  /\ collector[c].pc = "accepting"
  /\ collector[c].lock = FreeLock
  /\ collector' = [collector EXCEPT ![c].pc = "computing", ![c].stop_accepting = TRUE,
                                    ![c].lock = MainThread]
  /\ quiet_at_stop' = [quiet_at_stop EXCEPT ![c] = VotingComplete]
  /\ UNCHANGED <<voter, conn, peer_inbox, file, strays, h>>

\* The peer endpoint of collector c is bound and listening.
PeerListening(c) == collector[c].pc \in {"peer_accept", "peer_computing"}

\* send_to_peer line 207.
aggregate_str(cr) ==
  <<Word("AGGREGATE"), Num(cr.random_share_aggregate[1]), Num(cr.random_share_aggregate[2])>>

\* A send_to_peer in which the primary sends an all-zero aggregate.
send_to_peer_blank(c, cr) ==
  IF PeerListening(Peer(c))
  THEN [peer_inbox EXCEPT ![Peer(c)] =
          Append(@, IF c = 1 THEN <<Word("AGGREGATE"), Num(0), Num(0)>>
                    ELSE aggregate_str(cr))]
  ELSE peer_inbox

\* send_to_peer: what reaches the peer's endpoint; a refused connect is logged
\* (lines 209-210) and nothing is sent.
send_to_peer(c, cr) ==
  IF PeerListening(Peer(c))
  THEN [peer_inbox EXCEPT ![Peer(c)] = Append(@, aggregate_str(cr))]
  ELSE peer_inbox

\* A start_server in which the primary, too, sends before it listens.
ComputeAggregates_eager(c) ==
  /\ collector[c].pc = "computing"
  /\ LET cr == [compute_aggregates(collector[c]) EXCEPT !.lock = FreeLock] IN
     /\ collector' = [collector EXCEPT ![c] =
                        [cr EXCEPT !.pc = IF c = 1 THEN "peer_accept" ELSE "listen"]]
     /\ peer_inbox' = send_to_peer(c, cr)
  /\ UNCHANGED <<voter, conn, file, strays, quiet_at_stop, h>>

\* compute_aggregates lines 184-197 of start_server line 255, then the role
\* branch: collector 1 binds and listens on its peer endpoint
\* (accept_peer_connection lines 227-230), collector 2 calls send_to_peer.
ComputeAggregates(c) ==
  /\ collector[c].pc = "computing"
  /\ LET cr == [compute_aggregates(collector[c]) EXCEPT !.lock = FreeLock] IN
     IF c = 1
     THEN /\ collector' = [collector EXCEPT ![c] = [cr EXCEPT !.pc = "peer_accept"]]
          /\ UNCHANGED peer_inbox
     ELSE /\ collector' = [collector EXCEPT ![c] = [cr EXCEPT !.pc = "listen"]]
          /\ peer_inbox' = send_to_peer(c, cr)
  /\ UNCHANGED <<voter, conn, file, strays, quiet_at_stop, h>>

\* accept_peer_connection lines 227-230 of collector 2: bind and listen.
PeerListen(c) ==
  /\ collector[c].pc = "listen"
  /\ collector' = [collector EXCEPT ![c].pc = "peer_accept"]
  /\ UNCHANGED <<voter, conn, peer_inbox, file, strays, quiet_at_stop, h>>

\* accept_peer_connection lines 231-232, handle_voter, handle_peer_message lines
\* 156-161 up to the lock of compute_aggregates.
PeerReceive(c) ==
  /\ collector[c].pc = "peer_accept"
  /\ peer_inbox[c] # <<>>
  /\ LET data == Head(peer_inbox[c]) IN
     /\ IsAggregate(data) /\ PeerFrameOK(data)
     /\ collector[c].lock = FreeLock
     /\ collector' = [collector EXCEPT
                        ![c].peer_random_share_aggregate = <<data[2].v, data[3].v>>,
                        ![c].lock = MainThread,
                        ![c].pc = "peer_computing"]
  /\ peer_inbox' = [peer_inbox EXCEPT ![c] = Tail(@)]
  /\ UNCHANGED <<voter, conn, file, strays, quiet_at_stop, h>>

\* handle_peer_message lines 161-176 in the main thread; collector 1 then calls
\* send_to_peer (line 260).
PeerFinish(c) ==
  /\ collector[c].pc = "peer_computing"
  /\ LET cr == [finish_peer_message(collector[c]) EXCEPT !.pc = "done"] IN
     /\ collector' = [collector EXCEPT ![c] = cr]
     /\ peer_inbox' = IF c = 1 THEN send_to_peer(c, cr) ELSE peer_inbox
  /\ UNCHANGED <<voter, conn, file, strays, quiet_at_stop, h>>

(***************************************************************************)
(* The protocol.                                                           *)
(***************************************************************************)
VoterStep(v) ==
  \/ RequestShares1(v)
  \/ ReceiveShares1(v)
  \/ ReceiveShares2(v)
  \/ CommitShare(v)
  \/ SendBallot(v)
  \/ \E c \in Collectors : ReceiveAck(v, c)
  \/ RemoveFile(v)

WorkerStep(c, k) ==
  \/ HandleShareRequest(c, k)
  \/ HandleBallotLock(c, k)
  \/ HandleBallotAppend(c, k)

MainStep(c) ==
  \/ Stop(c)
  \/ ComputeAggregates(c)
  \/ PeerListen(c)
  \/ PeerReceive(c)
  \/ PeerFinish(c)

Next ==
  \/ \E v \in Voters : VoterStep(v)
  \/ \E c \in Collectors, v \in Voters : WorkerStep(c, v)
  \/ \E c \in Collectors : MainStep(c)

Spec == Init /\ [][Next]_vars

(***************************************************************************)
(* The protocol with an environment that opens stray connections to the    *)
(* voter endpoints; one voter votes.                                       *)
(***************************************************************************)
\* Frames other than a voter's share request or ballot.
StrayMessages ==
  { <<Word("AGGREGATE"), Num(1), Num(2)>>,
    <<Word("AGGREGATE"), Num(1)>>,
    <<Word("AGGREGATE"), Word("x"), Num(2)>>,
    <<Num(1), Num(2), Num(3)>>,
    <<Word("x"), Num(2)>>,
    <<Word("x")>>,
    <<Num(total_voters + 1)>>,
    <<Num(1 - total_voters)>> }

StrayConnect(c, data) ==
  /\ strays < MaxStray
  /\ conn[Stray].st = "none"
  /\ Accepting(c)
  /\ conn' = [conn EXCEPT ![Stray] = Connect(c, data)]
  /\ strays' = strays + 1
  /\ UNCHANGED <<voter, collector, peer_inbox, file, quiet_at_stop, h>>

\* The stray client drops its connection once the worker is through with it.
StrayClose ==
  /\ conn[Stray].st \in {"replied", "closed"}
  /\ conn' = [conn EXCEPT ![Stray] = NoConn]
  /\ UNCHANGED <<voter, collector, peer_inbox, file, strays, quiet_at_stop, h>>

EnvWorkerStep(c, k) ==
  \/ WorkerStep(c, k)
  \/ HandleMalformed(c, k)
  \/ HandleAggregateLock(c, k)
  \/ HandleAggregateFinish(c, k)

\* The steps of a voter that votes alone: the registry never fills, so
\* cleanup_assigned_shares never removes it.
LoneVoterStep(v) ==
  \/ RequestShares1(v)
  \/ ReceiveShares1(v)
  \/ ReceiveShares2(v)
  \/ CommitShare(v)
  \/ SendBallot(v)
  \/ \E c \in Collectors : ReceiveAck(v, c)

NextEnv ==
  \/ LoneVoterStep(1)
  \/ \E c \in Collectors, k \in {1, Stray} : EnvWorkerStep(c, k)
  \/ \E c \in Collectors : MainStep(c)
  \/ \E c \in Collectors, data \in StrayMessages : StrayConnect(c, data)
  \/ StrayClose

SpecEnv == Init /\ [][NextEnv]_vars

(***************************************************************************)
(* Harness for the encoding and the decode: ballots are encoded for chosen *)
(* (location, choice) pairs and summed, and the sum is decoded.            *)
(***************************************************************************)
CodecSize == CodecVoters * total_candidates

\* One voter's compute_voting_vector and compute_numbers; the encoded ballot is
\* added to the sum a collector's final result would hold.
CodecCast(loc, choice) ==
  /\ Len(h.casts) < CodecVoters
  /\ h.runs = 0
  /\ h.view = <<>>
  /\ LET vv == compute_voting_vector(loc, choice, CodecVoters, total_candidates)
         nn == compute_numbers(vv, CodecSize)
     IN h' = [h EXCEPT !.casts = Append(@, <<loc, choice>>),
                       !.vector = vv,
                       !.numbers = nn,
                       !.sum = <<@[1] + nn[1], @[2] + nn[2]>>]
  /\ UNCHANGED <<voter, collector, conn, peer_inbox, file, strays, quiet_at_stop>>

\* A decode that consumes the final result it was given.
tally_call_consuming(hr) ==
  [hr EXCEPT !.out = tally_votes(hr.sum, total_candidates, CodecVoters),
             !.sum = <<0, 0>>,
             !.runs = @ + 1]

\* The effect of one call tally_votes(final_result, candidates) on the harness:
\* the counts are printed, final_result is only read.
tally_call(hr) ==
  [hr EXCEPT !.out = tally_votes(hr.sum, total_candidates, CodecVoters),
             !.runs = @ + 1]

CodecDecode ==
  /\ h.runs < 2
  /\ h.view = <<>>
  /\ h' = tally_call(h)
  /\ UNCHANGED <<voter, collector, conn, peer_inbox, file, strays, quiet_at_stop>>

NextCodec ==
  \/ \E loc \in 1..CodecVoters, choice \in 0..(total_candidates - 1) : CodecCast(loc, choice)
  \/ CodecDecode

\* The harness starts from one of the protocol's initial states.
InitCodec ==
  /\ Init
  /\ \A c \in Collectors : collector[c].location_shares = [i \in 1..total_voters |-> i - 1]

SpecCodec == InitCodec /\ [][NextCodec]_vars

\* vote_process lines 148-150 for the ballot just encoded, with the share pairs
\* the two collectors issued: what collector 1 sees of this voter.
CodecBlind(rs1, rs2) ==
  /\ Len(h.casts) = 1
  /\ h.runs = 0
  /\ h.view = <<>>
  /\ h' = [h EXCEPT !.view = [ballot |-> Blind(h.numbers, rs1, rs2), issued |-> rs1]]
  /\ UNCHANGED <<voter, collector, conn, peer_inbox, file, strays, quiet_at_stop>>

\* The pairs generate_random_shares can return (lines 48-49).
SharePairs == (RandLo..RandHi) \X (RandLo..RandHi)
\* The pairs the harness lets collector 1 issue.
IssuedPairs == {RandLo, RandHi} \X {RandLo, RandHi}

NextBlind ==
  \/ \E loc \in 1..CodecVoters, choice \in 0..(total_candidates - 1) :
        Len(h.casts) = 0 /\ CodecCast(loc, choice)
  \/ \E rs1 \in IssuedPairs, rs2 \in SharePairs : CodecBlind(rs1, rs2)

SpecBlind == InitCodec /\ [][NextBlind]_vars

(***************************************************************************)
(* The registry alone: voter processes with their computed share given,    *)
(* from the registry read to cleanup; a finished voter program may be run  *)
(* again.                                                                  *)
(***************************************************************************)
\* vote_process lines 123-127 with the sum of the two partial values reducing to
\* share: the registry is read.
Arrive(v, share) ==
  /\ voter[v].pc = "start"
  /\ voter' = [voter EXCEPT ![v].pc = "commit",
                            ![v].computed_share = share,
                            ![v].assigned_shares = read_assigned_shares]
  /\ UNCHANGED <<collector, conn, peer_inbox, file, strays, quiet_at_stop, h>>

\* vote_process line 157 once send_secret_ballot returned: cleanup_assigned_shares
\* lines 64-65.
Depart(v) ==
  /\ voter[v].pc = "encode"
  /\ voter' = [voter EXCEPT ![v].pc = IF Len(read_assigned_shares) = total_voters
                                      THEN "remove" ELSE "done"]
  /\ UNCHANGED <<collector, conn, peer_inbox, file, strays, quiet_at_stop, h>>

\* voter.py lines 172-196: the voter program is started once more.
Restart(v) ==
  /\ voter[v].pc \in {"done", "crash"}
  /\ voter' = [voter EXCEPT ![v] = InitVoter]
  /\ UNCHANGED <<collector, conn, peer_inbox, file, strays, quiet_at_stop, h>>

NextRegistry ==
  \/ \E v \in Voters, share \in 1..total_voters : Arrive(v, share)
  \/ \E v \in Voters : CommitShare(v)
  \/ \E v \in Voters : Depart(v)
  \/ \E v \in Voters : RemoveFile(v)
  \/ \E v \in Voters : Restart(v)

SpecRegistry == InitCodec /\ [][NextRegistry]_vars

(***************************************************************************)
(* Properties.                                                             *)
(***************************************************************************)
Assigned(v) == voter[v].location_share # 0
Encoded(v) == voter[v].voting_vector # <<>>
SetBits(vv) == {i \in 1..Len(vv) : vv[i] = 1}

\* C1: for total_voters voters running vote_process concurrently, the location
\* shares assigned are pairwise distinct, form exactly 1..total_voters once every
\* voter has one, and the set bits of the voting vectors are pairwise distinct.
C1_UniqueLocationShares ==
  /\ \A v, w \in Voters :
       (v # w /\ Assigned(v) /\ Assigned(w))
         => voter[v].location_share # voter[w].location_share
  /\ (\A v \in Voters : Assigned(v))
       => {voter[v].location_share : v \in Voters} = 1..total_voters
  /\ \A v, w \in Voters :
       (v # w /\ Encoded(v) /\ Encoded(w))
         => SetBits(voter[v].voting_vector) \cap SetBits(voter[w].voting_vector) = {}

\* A collector is blocked in the accept of accept_peer_connection with nothing
\* queued on its peer endpoint.
BlockedOnPeer(c) == collector[c].pc = "peer_accept" /\ peer_inbox[c] = <<>>

\* C2: whatever the order of the two stop signals, no reachable state has both
\* collectors blocked waiting to receive the other's share aggregate.
C2_NoPeerDeadlock == ~(BlockedOnPeer(1) /\ BlockedOnPeer(2))

\* The elementwise sum of the voters' encoded ballots (number1, number2).
RECURSIVE EncodedSum(_)
EncodedSum(S) ==
  IF S = {} THEN <<0, 0>>
  ELSE LET v == CHOOSE x \in S : TRUE
           r == EncodedSum(S \ {v})
       IN <<voter[v].numbers[1] + r[1], voter[v].numbers[2] + r[2]>>

\* The collector went through the peer exchange and printed its final result.
Exchanged(c) == collector[c].pc = "done"

\* C3 as stated: for any order of share requests and ballot submissions, the
\* final result a collector computes after the exchange is the elementwise sum
\* of all voters' encoded ballots.
C3_Linearity ==
  \A c \in Collectors : Exchanged(c) => collector[c].result = EncodedSum(Voters)

\* C3 as amended: the same, for runs in which at each collector's stop signal every
\* voter either had been issued no share pair or had its secret ballot
\* acknowledged by both collectors.
C3_LinearityWhenComplete ==
  \A c \in Collectors :
    (Exchanged(c) /\ \A d \in Collectors : quiet_at_stop[d])
      => collector[c].result = EncodedSum(Voters)

\* Every voter voted before the stop signals and both collectors finished.
C3_Witness ==
  /\ \A c \in Collectors : Exchanged(c) /\ quiet_at_stop[c]
  /\ \A v \in Voters : Completed(v)
  /\ \E v, w \in Voters : voter[v].numbers # voter[w].numbers

\* The harness' casts: locations, and how many chose a candidate index.
CastDistinct ==
  \A i, j \in 1..Len(h.casts) : i # j => h.casts[i][1] # h.casts[j][1]
CastFor(choice) == Cardinality({i \in 1..Len(h.casts) : h.casts[i][2] = choice})

\* C4: when the final result is the sum of the encoded ballots of voters holding
\* pairwise distinct locations, tally_votes yields for each of the two numbers the
\* count of voters per candidate, so the two count vectors agree.
C4_DecodeCorrect ==
  (h.runs > 0 /\ CastDistinct)
    => \A i \in 1..2 : \A idx \in 1..total_candidates : h.out[i][idx] = CastFor(idx - 1)

\* A full election with distinct locations and two different choices was decoded.
C4_Witness ==
  /\ h.runs > 0
  /\ CastDistinct
  /\ Len(h.casts) = CodecVoters
  /\ \E i, j \in 1..Len(h.casts) : h.casts[i][2] # h.casts[j][2]

\* C5: for location L and candidate index c the voting vector has exactly one set
\* bit, at pos = (L-1)*C + c, and the encoded ballot is (2^pos, 2^(N-1-pos)).
C5_Encoding ==
  h.casts # <<>>
    => LET last == h.casts[Len(h.casts)]
           pos == (last[1] - 1) * total_candidates + last[2]
       IN /\ Len(h.vector) = CodecSize
          /\ \A i \in 1..CodecSize : h.vector[i] = (IF i = pos + 1 THEN 1 ELSE 0)
          /\ h.numbers = <<Pow2(pos), Pow2(CodecSize - 1 - pos)>>

\* The last location with the last candidate was encoded.
C5_Witness ==
  /\ h.casts # <<>>
  /\ h.casts[Len(h.casts)] = <<CodecVoters, total_candidates - 1>>

\* C6: what one collector sees of a voter (the secret ballot and the share pair it
\* issued) is what it would see for any other bit position, for some share pair
\* the peer can generate.
C6_SingleCollectorHiding ==
  h.view # <<>>
    => \A pos \in 0..(CodecSize - 1) :
         \E rs2 \in SharePairs :
           Blind(<<Pow2(pos), Pow2(CodecSize - 1 - pos)>>, h.view.issued, rs2) = h.view.ballot

\* The aggregation state of a collector and what it printed.
Aggregation(cr) ==
  <<cr.secret_ballot_aggregate, cr.random_share_aggregate,
    cr.peer_random_share_aggregate, cr.result, cr.tally>>

\* C7: while a collector is accepting, no message on its voter endpoint makes it
\* compute aggregates, set the peer aggregate or decode a tally.
C7_OnlyStopAggregates ==
  [][\A c \in Collectors :
       (Accepting(c) /\ collector'[c].pc = "accepting")
         => Aggregation(collector'[c]) = Aggregation(collector[c])]_vars

Guarded(cr) ==
  <<cr.received_ballots, cr.random_shares, cr.secret_ballot_aggregate,
    cr.random_share_aggregate, cr.peer_random_share_aggregate>>

\* The thread taking the step holds the lock of collector c.
StepperHoldsLock(c) ==
  \/ collector[c].lock = MainThread /\ collector'[c].pc # collector[c].pc
  \/ \E k \in Clients : collector[c].lock = Worker(k) /\ conn'[k] # conn[k]

\* C9: every mutation of a collector's ballots, shares and aggregates happens
\* while the mutating thread holds the collector's lock.
C9_MutationsUnderLock ==
  [][\A c \in Collectors :
       Guarded(collector'[c]) # Guarded(collector[c]) => StepperHoldsLock(c)]_vars

\* C10: no two voters are at the same time between reading the registry and
\* writing their appended value back.
C10_AtomicCommit ==
  \A v, w \in Voters : v # w => ~(voter[v].pc = "commit" /\ voter[w].pc = "commit")

\* The compute_aggregates of start_server (line 255) has run in collector c.
Computed(c) == collector[c].pc \notin {"accepting", "computing"}

\* C11: compute_aggregates runs once per collector, after the accept loop has
\* stopped, and the ballot aggregate and the own share aggregate never change
\* after that first computation.
C11_AggregatesWriteOnce ==
  [][\A c \in Collectors :
       Computed(c)
         => /\ collector'[c].secret_ballot_aggregate = collector[c].secret_ballot_aggregate
            /\ collector'[c].random_share_aggregate = collector[c].random_share_aggregate]_vars

\* C12: once a collector has computed its aggregates after the stop signal, no
\* worker of its accept loop is still running, and no ballot or share pair is
\* appended any more.
C12_WorkersDrained ==
  [][\A c \in Collectors :
       Computed(c)
         => /\ \A k \in Clients : ~(conn[k].to = c /\ conn[k].st \in {"accepted", "locked"})
            /\ collector'[c].received_ballots = collector[c].received_ballots
            /\ collector'[c].random_shares = collector[c].random_shares]_vars

\* C13: the probe of a commit ends within total_voters steps: no voter is left
\* probing on a registry that already holds every value of 1..total_voters.
C13_ProbeEnds == \A v \in Voters : voter[v].pc # "probing"

\* The step is voter v's write_assigned_shares (vote_process line 136).
Writes(v) == voter[v].pc = "commit" /\ voter'[v].pc = "encode"

\* C14: until it is deleted the registry only grows: every write by a voter
\* leaves it holding all values committed before plus exactly one new value.
C14_RegistryGrows ==
  [][\A v \in Voters :
       Writes(v)
         => /\ voter'[v].location_share \notin Range(read_assigned_shares)
            /\ file'.content = Append(read_assigned_shares, voter'[v].location_share)]_vars

\* A voter has returned from vote_process.
Finished(v) == voter[v].pc = "done"

\* C15: once all total_voters voters have finished vote_process, the registry has
\* been deleted.
C15_RegistryCleared == (\A v \in Voters : Finished(v)) => ~file.exists

\* The messages C16 calls malformed: a ballot with a wrong field count or a
\* non-numeric field, a voter identifier that is non-numeric or outside
\* 1..total_voters, an AGGREGATE frame with a wrong field count or a non-numeric
\* value.
WireMalformed(data) ==
  IF IsAggregate(data) THEN Len(data) # 3 \/ ~IsInt(data[2]) \/ ~IsInt(data[3])
  ELSE IF HasComma(data) THEN Len(data) # 2 \/ ~IsInt(data[1]) \/ ~IsInt(data[2])
  ELSE ~IsInt(data[1]) \/ data[1].v \notin 1..total_voters

\* C16: handling a malformed message leaves the collector's ballots, share pairs
\* and aggregates as they were.
C16_MalformedIsolated ==
  [][\A k \in Clients :
       (conn[k].st = "accepted" /\ WireMalformed(conn[k].data) /\ conn'[k].st # "accepted")
         => \A c \in Collectors : Guarded(collector'[c]) = Guarded(collector[c])]_vars

\* Client k holds the reply to a share request.
Served(k) == conn[k].st = "replied" /\ Len(conn[k].resp) = 3

\* C20: the partial location values a collector hands out differ for any two
\* distinct voter identifiers it serves and agree for equal identifiers.
C20_PartialsFixedUnique ==
  \A j, k \in Clients :
    (Served(j) /\ Served(k) /\ conn[j].to = conn[k].to)
      => (conn[j].data[1].v = conn[k].data[1].v) = (conn[j].resp[1].v = conn[k].resp[1].v)

\* What tally_votes printed beyond its one line of counts per number of the
\* final result (line 118 is its only output).
fault_lines(cr) == SubSeq(cr.tally, 3, Len(cr.tally))

\* The two decoded count vectors of a collector differ.
TalliesDiffer(cr) == cr.tally # <<>> /\ cr.tally[1] # cr.tally[2]

\* C17: when the count vectors decoded from the two numbers of the final result
\* differ, the collector reports the divergence.
C17_DivergenceFlagged ==
  \A c \in Collectors : TalliesDiffer(collector[c]) => fault_lines(collector[c]) # <<>>

\* The thread taking the step is in handle_peer_message of collector c past line
\* 157: the AGGREGATE frame it was handed is stored as the peer's aggregate.
AggregateReceived(c) ==
  \/ collector[c].pc = "peer_computing"
  \/ \E k \in Clients :
       conn[k].to = c /\ conn[k].st = "locked" /\ IsAggregate(conn[k].data)

Phase(pc) ==
  CASE pc \in {"start", "shares1", "shares2"} -> 1
    [] pc \in {"commit", "probing"} -> 2
    [] pc = "encode" -> 3
    [] pc \in {"ballot1", "ballot2"} -> 4
    [] pc \in {"remove", "done", "crash"} -> 5
    [] OTHER -> 0

\* The voter holds a share pair of the primary / of the secondary collector.
HasShares1(v) == voter[v].random_shares_collector1 # <<>>
HasShares2(v) == voter[v].random_shares_collector2 # <<>>

\* C19: a voter passes its phases in order; it resolves a location and submits a
\* ballot only after it received a share pair from the primary and then from the
\* secondary collector; a voter whose share acquisition failed has committed no
\* location and submitted no ballot.
C19_PhasesInOrder ==
  /\ [](\A v \in Voters :
          /\ HasShares2(v) => HasShares1(v)
          /\ (Phase(voter[v].pc) >= 2 \/ Assigned(v) \/ voter[v].secret_ballot # <<>>)
               => (HasShares1(v) /\ HasShares2(v))
          /\ voter[v].pc = "exit"
               => /\ ~HasShares2(v)
                  /\ ~Assigned(v)
                  /\ voter[v].secret_ballot = <<>>
                  /\ voter[v].acks = {})
  /\ [][\A v \in Voters :
          voter'[v].pc # voter[v].pc
            => \/ voter'[v].pc = "exit" /\ Phase(voter[v].pc) = 1
               \/ /\ Phase(voter'[v].pc) >= Phase(voter[v].pc)
                  /\ Phase(voter'[v].pc) <= Phase(voter[v].pc) + 1
               \/ voter[v].pc = "encode" /\ Phase(voter'[v].pc) = 5]_vars

\* One voter voted at both collectors; another got shares from the primary only
\* and exited.
C19_Witness ==
  \E v, w \in Voters :
    /\ voter[v].pc = "done" /\ Completed(v)
    /\ voter[w].pc = "exit" /\ HasShares1(w)

\* Collector c has taken a frame from its peer endpoint and stored its values as
\* the peer's aggregate (handle_peer_message line 157).
PeerTook(c) == collector[c].pc \in {"peer_computing", "done"}

\* C21: the share aggregate a collector sent to its peer, as the peer stored it,
\* is the value the collector subtracted as its own share aggregate in its final
\* result.
C21_SentIsSubtracted ==
  \A c \in Collectors :
    (Exchanged(c) /\ PeerTook(Peer(c)))
      => collector[Peer(c)].peer_random_share_aggregate = collector[c].random_share_aggregate

\* Every voter's secret ballot was acknowledged by both collectors before either
\* stop signal.
AllVotedBeforeStop ==
  /\ \A c \in Collectors : quiet_at_stop[c]
  /\ \A v \in Voters : Completed(v)

\* C22: when every voter's secret ballot was acknowledged by both collectors
\* before either collector closed its accept phase, the two collectors compute
\* the same final result and decode equal tallies.
C22_CollectorsAgree ==
  (AllVotedBeforeStop /\ \A c \in Collectors : Exchanged(c))
    => /\ collector[1].result = collector[2].result
       /\ collector[1].tally = collector[2].tally

\* Both collectors decoded after a complete vote of voters at different locations.
C22_Witness ==
  /\ AllVotedBeforeStop
  /\ \A c \in Collectors : Exchanged(c) /\ collector[c].tally # <<>>
  /\ \A v, w \in Voters : v # w => voter[v].location_share # voter[w].location_share

====
